---- MODULE Spec2Model ----
(***************************************************************************)
(* A model of zcashrpc's Client (src/src/client.rs): construction, the     *)
(* request identifier iterator, the make_request round trip, the typed     *)
(* methods getinfo and getblockchaininfo with their response schemas, and  *)
(* Client::from_env.  The envelope, json and error modules of the crate    *)
(* are not among the sources; they are modelled from the specification     *)
(* (sections 4.1, 6 and 7) and marked so where they are defined.           *)
(***************************************************************************)
EXTENDS Integers, Sequences, FiniteSets, TLC

\* The number of calls one Client makes in a checked behaviour.
MaxCalls == 3

\* The tasks that share one Client.
Callers == {"a", "b"}

\* The typed methods of the Client.
Methods == {"getinfo", "getblockchaininfo"}

-----------------------------------------------------------------------------
(* JSON values (serde_json::Value), tagged by their kind.                  *)

JNull == [k |-> "null"]
JNum(n) == [k |-> "number", n |-> n]
JStr(s) == [k |-> "string", s |-> s]
JBool(b) == [k |-> "bool", b |-> b]
JArr(a) == [k |-> "array", a |-> a]
JObj(o) == [k |-> "object", o |-> o]

\* A function with one key removed.
Without(f, key) == [x \in DOMAIN f \ {key} |-> f[x]]

\* A function with one key set.
With(f, key, v) == [x \in DOMAIN f \cup {key} |-> IF x = key THEN v ELSE f[x]]

-----------------------------------------------------------------------------
(* The response schemas: the field types of the declared response types.   *)

U64 == [t |-> "u64"]
I64 == [t |-> "i64"]
F64 == [t |-> "f64"]
Str == [t |-> "string"]
Bool == [t |-> "bool"]
Zec == [t |-> "zec"]
Json == [t |-> "json"]
Opt(ty) == [t |-> "option", of |-> ty]
Vec(ty) == [t |-> "vec", of |-> ty]
Map(ty) == [t |-> "map", of |-> ty]
Struct(name) == [t |-> "struct", name |-> name]

\* GetInfoResponse as it would be with blocks declared Option<u64>.
GetInfoResponseOptionalBlocks ==
    [balance |-> Zec, blocks |-> Opt(U64), connections |-> U64, difficulty |-> F64,
     errors |-> Str, keypoololdest |-> U64, keypoolsize |-> U64,
     paytxfee |-> Zec, protocolversion |-> U64, proxy |-> Str,
     relayfee |-> Zec, testnet |-> Bool, timeoffset |-> U64,
     version |-> U64, walletversion |-> U64]

GetInfoResponse ==
    [balance |-> Zec, blocks |-> U64, connections |-> U64, difficulty |-> F64,
     errors |-> Str, keypoololdest |-> U64, keypoolsize |-> U64,
     paytxfee |-> Zec, protocolversion |-> U64, proxy |-> Str,
     relayfee |-> Zec, testnet |-> Bool, timeoffset |-> U64,
     version |-> U64, walletversion |-> U64]

GetBlockChainInfoResponse ==
    [chain |-> Str, blocks |-> U64, headers |-> U64, bestblockhash |-> Str,
     difficulty |-> F64, verificationprogress |-> F64, chainwork |-> Str,
     pruned |-> Bool, size_on_disk |-> U64, commitments |-> U64,
     valuePools |-> Vec(Struct("ValuePool")),
     softforks |-> Vec(Struct("Softfork")),
     upgrades |-> Map(Struct("NetworkUpgradeDesc")),
     consensus |-> Struct("Consensus"),
     pruneheight |-> Opt(U64), fullyNotified |-> Opt(Bool)]

ValuePool ==
    [id |-> Str, monitored |-> Bool, chainValue |-> Opt(Zec),
     chainValueZat |-> Opt(U64), valueDelta |-> Opt(Zec),
     valueDeltaZat |-> Opt(I64)]

Softfork ==
    [id |-> Str, version |-> I64, enforce |-> Struct("SoftforkMajorityDesc"),
     reject |-> Struct("SoftforkMajorityDesc")]

SoftforkMajorityDesc ==
    [status |-> Bool, found |-> I64, required |-> I64, window |-> Json]

NetworkUpgradeDesc ==
    [name |-> Str, activationheight |-> U64, status |-> Str, info |-> Str]

Consensus == [chaintip |-> Str, nextblock |-> Str]

\* The fields of a named response type.
Fields(name) ==
    CASE name = "GetInfoResponse" -> GetInfoResponse
      [] name = "GetBlockChainInfoResponse" -> GetBlockChainInfoResponse
      [] name = "ValuePool" -> ValuePool
      [] name = "Softfork" -> Softfork
      [] name = "SoftforkMajorityDesc" -> SoftforkMajorityDesc
      [] name = "NetworkUpgradeDesc" -> NetworkUpgradeDesc
      [] name = "Consensus" -> Consensus

\* The typed methods with each other's response type.
ResponseTypeSwapped(method) ==
    CASE method = "getinfo" -> "GetBlockChainInfoResponse"
      [] method = "getblockchaininfo" -> "GetInfoResponse"

\* The response type each typed method declares.
ResponseType(method) ==
    CASE method = "getinfo" -> "GetInfoResponse"
      [] method = "getblockchaininfo" -> "GetBlockChainInfoResponse"

\* Whether a JSON value deserializes into a type: serde's derived Deserialize
\* requires every field that is not an Option, with a value of its type, and
\* ignores fields the struct does not declare.
RECURSIVE Conforms(_, _)
Conforms(v, ty) ==
    CASE ty.t = "u64" -> v.k = "number" /\ v.n >= 0
      [] ty.t \in {"i64", "f64", "zec"} -> v.k = "number"
      [] ty.t = "string" -> v.k = "string"
      [] ty.t = "bool" -> v.k = "bool"
      [] ty.t = "json" -> TRUE
      [] ty.t = "option" -> v.k = "null" \/ Conforms(v, ty.of)
      [] ty.t = "vec" ->
            v.k = "array" /\ \A i \in 1..Len(v.a) : Conforms(v.a[i], ty.of)
      [] ty.t = "map" ->
            v.k = "object" /\ \A key \in DOMAIN v.o : Conforms(v.o[key], ty.of)
      [] ty.t = "struct" ->
            /\ v.k = "object"
            /\ \A f \in DOMAIN Fields(ty.name) :
                  IF f \in DOMAIN v.o
                  THEN Conforms(v.o[f], Fields(ty.name)[f])
                  ELSE Fields(ty.name)[f].t = "option"

\* The typed value a conforming JSON value deserializes into: the declared
\* fields only, each as a value of its type, an absent or null Option as None.
RECURSIVE Deserialize(_, _)
Deserialize(v, ty) ==
    CASE ty.t \in {"u64", "i64", "f64", "zec"} -> v.n
      [] ty.t = "string" -> v.s
      [] ty.t = "bool" -> v.b
      [] ty.t = "json" -> v
      [] ty.t = "option" ->
            IF v.k = "null" THEN [some |-> FALSE]
            ELSE [some |-> TRUE, v |-> Deserialize(v, ty.of)]
      [] ty.t = "vec" -> [i \in 1..Len(v.a) |-> Deserialize(v.a[i], ty.of)]
      [] ty.t = "map" -> [key \in DOMAIN v.o |-> Deserialize(v.o[key], ty.of)]
      [] ty.t = "struct" ->
            [f \in DOMAIN Fields(ty.name) |->
                IF f \in DOMAIN v.o
                THEN Deserialize(v.o[f], Fields(ty.name)[f])
                ELSE [some |-> FALSE]]

-----------------------------------------------------------------------------
(* Results and the error taxonomy (ResponseResult<T> and the crate's error *)
(* type, specification section 7).                                         *)

Ok(v) == [ok |-> TRUE, v |-> v]
Err(e) == [ok |-> FALSE, e |-> e]

Transport == [kind |-> "Transport"]
Malformed == [kind |-> "Malformed"]
Mismatch == [kind |-> "Mismatch"]
Decode == [kind |-> "Decode"]
RpcError(code, message) == [kind |-> "RpcError", code |-> code, message |-> message]

\* The variant of an outcome: "Ok" or the kind of its error.
Kind(r) == IF r.ok THEN "Ok" ELSE r.e.kind

ErrorKinds == {"Transport", "Malformed", "Mismatch", "RpcError", "Decode"}

-----------------------------------------------------------------------------
(* The envelope codec (crate::envelope and crate::json, specification      *)
(* sections 4.1 and 6).                                                    *)

\* A text is a JSON document or something that is not JSON.
JsonText(doc) == [json |-> TRUE, doc |-> doc]
Garbage == [json |-> FALSE]

\* Options of the response envelope.
None == [some |-> FALSE]
Some(v) == [some |-> TRUE, v |-> v]

\* RequestEnvelope::wrap: the serialized request envelope.
wrap(id, method, args) ==
    JsonText(JObj([id |-> JNum(id), method |-> JStr(method), params |-> JArr(args)]))

\* json::parse_string: the text as a JSON value, or Malformed.
parse_string(text) == IF text.json THEN Ok(text.doc) ELSE Err(Malformed)

\* An optional member of a JSON object: absent and null are both None.
Member(o, key) ==
    IF key \in DOMAIN o /\ o[key].k # "null" THEN Some(o[key]) ELSE None

\* Whether a JSON value is an application error object {code, message}.
IsErrorObject(v) ==
    /\ v.k = "object"
    /\ {"code", "message"} \subseteq DOMAIN v.o
    /\ v.o["code"].k = "number"
    /\ v.o["message"].k = "string"

\* json::parse_value into ResponseEnvelope: the JSON value as an envelope
\* {id, result, error}, or Malformed when it has not that shape.
parse_value(v) ==
    IF /\ v.k = "object"
       /\ "id" \in DOMAIN v.o
       /\ v.o["id"].k \in {"number", "null"}
       /\ Member(v.o, "error").some => IsErrorObject(v.o["error"])
    THEN Ok([id |-> v.o["id"],
             result |-> Member(v.o, "result"),
             error |-> Member(v.o, "error")])
    ELSE Err(Malformed)

\* ResponseEnvelope::unwrap: the reconciliation of an envelope against the
\* identifier of the request, into the response type of the method.
unwrap(respenv, id, method) ==
    IF respenv.id.k = "number" /\ respenv.id.n # id
    THEN Err(Mismatch)
    ELSE IF respenv.error.some
    THEN Err(RpcError(respenv.error.v.o["code"].n, respenv.error.v.o["message"].s))
    ELSE IF respenv.result.some
    THEN IF Conforms(respenv.result.v, Struct(ResponseType(method)))
         THEN Ok(Deserialize(respenv.result.v, Struct(ResponseType(method))))
         ELSE Err(Decode)
    ELSE Err(Malformed)

-----------------------------------------------------------------------------
(* What a server may answer: the texts the transport may hand back.        *)

\* A complete getinfo result.
GoodInfo(blocks, testnet) ==
    JObj([balance |-> JNum(0), blocks |-> JNum(blocks), connections |-> JNum(8),
          difficulty |-> JNum(1), errors |-> JStr(""), keypoololdest |-> JNum(1),
          keypoolsize |-> JNum(101), paytxfee |-> JNum(0),
          protocolversion |-> JNum(170013), proxy |-> JStr(""),
          relayfee |-> JNum(0), testnet |-> JBool(testnet),
          timeoffset |-> JNum(0), version |-> JNum(4020050),
          walletversion |-> JNum(60000)])

Majority == JObj([status |-> JBool(FALSE), found |-> JNum(0),
                  required |-> JNum(51), window |-> JNum(400)])

\* A complete getblockchaininfo result; its value pool carries a member the
\* schema does not declare, and the optional fullyNotified is absent.
GoodChain(blocks) ==
    JObj([chain |-> JStr("test"), blocks |-> JNum(blocks), headers |-> JNum(blocks),
          bestblockhash |-> JStr("00aa"), difficulty |-> JNum(1),
          verificationprogress |-> JNum(1), chainwork |-> JStr("0f"),
          pruned |-> JBool(FALSE), size_on_disk |-> JNum(4096),
          commitments |-> JNum(3),
          valuePools |-> JArr(<<JObj([id |-> JStr("sapling"),
                                      monitored |-> JBool(TRUE),
                                      chainValueZat |-> JNum(5),
                                      note |-> JStr("x")])>>),
          softforks |-> JArr(<<JObj([id |-> JStr("bip34"), version |-> JNum(2),
                                     enforce |-> Majority, reject |-> Majority])>>),
          upgrades |-> JObj("5ba81b19" :>
                            JObj([name |-> JStr("Overwinter"),
                                  activationheight |-> JNum(207500),
                                  status |-> JStr("active"),
                                  info |-> JStr("")])),
          consensus |-> JObj([chaintip |-> JStr("5ba81b19"),
                              nextblock |-> JStr("5ba81b19")]),
          pruneheight |-> JNull])

\* Results that match no declared schema.
Unexpected == JObj([unexpectedField |-> JNum(1)])
MissingBlocks == JObj(Without(GoodInfo(12345, TRUE).o, "blocks"))
MistypedBlocks == JObj(With(GoodInfo(12345, TRUE).o, "blocks", JStr("12345")))
NegativeBlocks == JObj(With(GoodInfo(12345, TRUE).o, "blocks", JNum(-1)))
BadNested == JObj(With(GoodChain(7).o, "consensus", JObj([chaintip |-> JStr("5ba81b19")])))

ServerResults ==
    {GoodInfo(12345, TRUE), GoodInfo(7, FALSE), GoodChain(7), Unexpected,
     MissingBlocks, MistypedBlocks, NegativeBlocks, BadNested, JNum(1)}

\* The application error of a server.
MethodNotFound == JObj([code |-> JNum(-32601), message |-> JStr("Method not found")])

\* The identifiers a server may answer with.
ServerIds == {JNull} \cup {JNum(i) : i \in 0..MaxCalls}

\* An object {id, result, error}, an absent member left out.
EnvelopeDoc(id, result, error) ==
    LET a == [id |-> id]
        b == IF result.some THEN With(a, "result", result.v) ELSE a
    IN  JObj(IF error.some THEN With(b, "error", error.v) ELSE b)

ServerTexts ==
    {Garbage,
     JsonText(JArr(<<>>)),
     JsonText(JObj([result |-> GoodInfo(12345, TRUE)])),
     JsonText(JObj([id |-> JStr("0"), result |-> GoodInfo(12345, TRUE)])),
     JsonText(JObj([id |-> JNum(0), error |-> JStr("failed")]))}
    \cup {JsonText(EnvelopeDoc(i, r, e)) :
            i \in ServerIds,
            r \in {None, Some(JNull)} \cup {Some(x) : x \in ServerResults},
            e \in {None, Some(JNull), Some(MethodNotFound)}}

-----------------------------------------------------------------------------
(* The Client and its calls.                                               *)

\* What Client::new may be given.
HostPorts == {"127.0.0.1:8232", "localhost"}
AuthCookies == {"X19jb29raWVfXzpwdw=="}

VARIABLES
    url,      \* Client.url
    auth,     \* Client.auth
    idit,     \* Client.idit: the next item of the iterator (0..)
    fut,      \* per caller, the make_request future: its position, its locals
              \* (method, id, text), the steps it took (ops) and its outcome (out)
    posts,    \* the POSTs the transport has issued, in order
    issued,   \* per caller, the identifiers its calls were given, in order
    env,      \* the process environment
    fromenv   \* the last call of Client::from_env: the environment it saw and its result

vars == <<url, auth, idit, fut, posts, issued, env, fromenv>>

clientvars == <<url, auth, idit, fut, posts, issued>>

\* Client::new with the iterator started at 1.
NewFromOne(hostport, authcookie) ==
    [url |-> "http://" \o hostport \o "/",
     auth |-> "Basic " \o authcookie,
     idit |-> 1]

\* Client::new.
New(hostport, authcookie) ==
    [url |-> "http://" \o hostport \o "/",
     auth |-> "Basic " \o authcookie,
     idit |-> 0]

\* An iterator that yields its item without advancing (next on a clone).
nextPeek(it) == [item |-> it, rest |-> it]

\* RangeFrom::next on the iterator: the item it yields and the iterator after.
next(it) == [item |-> it, rest |-> it + 1]

\* No future of the client exists, so no caller has a call in progress.
Idle == [pc |-> "idle"]

\* &mut self: a call can start only while no other borrow of the Client is
\* alive, that is while no make_request future of it exists.
Exclusive(c) == \A d \in Callers : fut[d].pc = "idle"

\* make_request unwrapping against the iterator's next id, not the request's.
ReconcileNextId(text, id, method) ==
    LET json == parse_string(text) IN
    IF ~json.ok THEN [out |-> json, ops |-> <<"parse_string">>]
    ELSE LET respenv == parse_value(json.v) IN
         IF ~respenv.ok
         THEN [out |-> respenv, ops |-> <<"parse_string", "parse_value">>]
         ELSE [out |-> unwrap(respenv.v, id + 1, method),
               ops |-> <<"parse_string", "parse_value", "unwrap">>]

\* make_request taking the envelope's result itself when there is one, and
\* unwrapping only when there is none.
ReconcileResultFirst(text, id, method) ==
    LET json == parse_string(text) IN
    IF ~json.ok THEN [out |-> json, ops |-> <<"parse_string">>]
    ELSE LET respenv == parse_value(json.v) IN
         IF ~respenv.ok
         THEN [out |-> respenv, ops |-> <<"parse_string", "parse_value">>]
         ELSE IF respenv.v.result.some
         THEN [out |-> IF Conforms(respenv.v.result.v, Struct(ResponseType(method)))
                       THEN Ok(Deserialize(respenv.v.result.v,
                                           Struct(ResponseType(method))))
                       ELSE Err(Decode),
               ops |-> <<"parse_string", "parse_value">>]
         ELSE [out |-> unwrap(respenv.v, id, method),
               ops |-> <<"parse_string", "parse_value", "unwrap">>]

\* Lines 63 and 64 of make_request: parse the text, parse the envelope,
\* unwrap it against the id of the request; each ? returns the error at once.
\* ops are the steps taken.
Reconcile(text, id, method) ==
    LET json == parse_string(text) IN
    IF ~json.ok THEN [out |-> json, ops |-> <<"parse_string">>]
    ELSE LET respenv == parse_value(json.v) IN
         IF ~respenv.ok
         THEN [out |-> respenv, ops |-> <<"parse_string", "parse_value">>]
         ELSE [out |-> unwrap(respenv.v, id, method),
               ops |-> <<"parse_string", "parse_value", "unwrap">>]

\* A typed method (getinfo, getblockchaininfo) called and polled: make_request
\* takes the next id, and POSTs the wrapped request (lines 54 to 60).
Call(c, method) ==
    /\ Exclusive(c)
    /\ fut[c].pc = "idle"
    /\ idit < MaxCalls
    /\ LET n == next(idit) IN
       /\ idit' = n.rest
       /\ fut' = [fut EXCEPT ![c] = [pc |-> "send", method |-> method,
                                     id |-> n.item, ops |-> <<"post">>]]
       /\ posts' = Append(posts, [url |-> url, Authorization |-> auth,
                                  body |-> wrap(n.item, method, <<>>)])
       /\ issued' = [issued EXCEPT ![c] = Append(@, n.item)]
    /\ UNCHANGED <<url, auth, env, fromenv>>

\* A failed send answered by a second POST of the same request.
SendFailsRetry(c) ==
    /\ fut[c].pc = "send"
    /\ fut' = [fut EXCEPT ![c].ops = Append(@, "post")]
    /\ posts' = Append(posts, posts[Len(posts)])
    /\ UNCHANGED <<url, auth, idit, issued, env, fromenv>>

\* A failed send that gives the identifier back to the iterator.
SendFailsRollback(c) ==
    /\ fut[c].pc = "send"
    /\ fut' = [fut EXCEPT ![c] = [@ EXCEPT !.pc = "done"] @@ [out |-> Err(Transport)]]
    /\ idit' = fut[c].id
    /\ UNCHANGED <<url, auth, posts, issued, env, fromenv>>

\* send().await fails: the ? of line 61 returns the transport error.
SendFails(c) ==
    /\ fut[c].pc = "send"
    /\ fut' = [fut EXCEPT ![c] = [@ EXCEPT !.pc = "done"] @@ [out |-> Err(Transport)]]
    /\ UNCHANGED <<url, auth, idit, posts, issued, env, fromenv>>

\* send().await yields the response.
SendOk(c) ==
    /\ fut[c].pc = "send"
    /\ fut' = [fut EXCEPT ![c].pc = "text"]
    /\ UNCHANGED <<url, auth, idit, posts, issued, env, fromenv>>

\* text().await fails: the ? of line 62 returns the transport error.
TextFails(c) ==
    /\ fut[c].pc = "text"
    /\ fut' = [fut EXCEPT ![c] = [@ EXCEPT !.pc = "done"] @@ [out |-> Err(Transport)]]
    /\ UNCHANGED <<url, auth, idit, posts, issued, env, fromenv>>

\* text().await yields the body; lines 63 to 65 produce the outcome.
TextOk(c, text) ==
    /\ fut[c].pc = "text"
    /\ LET r == Reconcile(text, fut[c].id, fut[c].method) IN
       fut' = [fut EXCEPT ![c] = [@ EXCEPT !.pc = "done", !.ops = @ \o r.ops]
                                 @@ [text |-> text, out |-> r.out]]
    /\ UNCHANGED <<url, auth, idit, posts, issued, env, fromenv>>

\* The caller takes the outcome; the future is dropped.
Return(c) ==
    /\ fut[c].pc = "done"
    /\ fut' = [fut EXCEPT ![c] = Idle]
    /\ UNCHANGED <<url, auth, idit, posts, issued, env, fromenv>>

\* The caller drops the future at an await: the call is cancelled.
Cancel(c) ==
    /\ fut[c].pc \in {"send", "text"}
    /\ fut' = [fut EXCEPT ![c] = Idle]
    /\ UNCHANGED <<url, auth, idit, posts, issued, env, fromenv>>

\* The environment of a process that makes no use of from_env.
NoEnv == [key \in {"ZCASHRPC_HOST", "ZCASHRPC_AUTH"} |-> [set |-> FALSE]]

NotCalled == [called |-> FALSE]

Init ==
    /\ \E hostport \in HostPorts, authcookie \in AuthCookies :
          LET client == New(hostport, authcookie) IN
          /\ url = client.url
          /\ auth = client.auth
          /\ idit = client.idit
    /\ fut = [c \in Callers |-> Idle]
    /\ posts = <<>>
    /\ issued = [c \in Callers |-> <<>>]
    /\ env = NoEnv
    /\ fromenv = NotCalled

Next ==
    \/ \E c \in Callers, method \in Methods : Call(c, method)
    \/ \E c \in Callers : SendFails(c)
    \/ \E c \in Callers : SendOk(c)
    \/ \E c \in Callers : TextFails(c)
    \/ \E c \in Callers, text \in ServerTexts : TextOk(c, text)
    \/ \E c \in Callers : Return(c)
    \/ \E c \in Callers : Cancel(c)

Spec == Init /\ [][Next]_vars

-----------------------------------------------------------------------------
(* Client::from_env and the process environment.                           *)

EnvVars == {"ZCASHRPC_HOST", "ZCASHRPC_AUTH"}

\* What an environment variable may hold: nothing, a string, or bytes that
\* are not Unicode.
Unset == [set |-> FALSE]
Value(s) == [set |-> TRUE, unicode |-> TRUE, s |-> s]
NotUnicodeValue == [set |-> TRUE, unicode |-> FALSE]

EnvValues ==
    {Unset, NotUnicodeValue} \cup {Value(s) : s \in HostPorts \cup AuthCookies}

\* std::env::VarError.
NotPresent == [kind |-> "NotPresent"]
NotUnicode(os) == [kind |-> "NotUnicode", os |-> os]

\* std::env::var.
var(key) ==
    IF ~env[key].set THEN Err(NotPresent)
    ELSE IF ~env[key].unicode THEN Err(NotUnicode(env[key]))
    ELSE Ok(env[key].s)

\* from_env handing the two values to Client::new in the wrong order.
from_envSwapped ==
    LET host == var("ZCASHRPC_HOST") IN
    IF ~host.ok THEN host
    ELSE LET authcookie == var("ZCASHRPC_AUTH") IN
         IF ~authcookie.ok THEN authcookie
         ELSE Ok(New(authcookie.v, host.v))

\* Client::from_env: each ? returns the VarError at once.
from_env ==
    LET host == var("ZCASHRPC_HOST") IN
    IF ~host.ok THEN host
    ELSE LET authcookie == var("ZCASHRPC_AUTH") IN
         IF ~authcookie.ok THEN authcookie
         ELSE Ok(New(host.v, authcookie.v))

\* The process calls Client::from_env and keeps the Client it gets.
FromEnv ==
    /\ fromenv' = [called |-> TRUE, env |-> env, res |-> from_env]
    /\ IF from_env.ok
       THEN /\ url' = from_env.v.url
            /\ auth' = from_env.v.auth
            /\ idit' = from_env.v.idit
       ELSE UNCHANGED <<url, auth, idit>>
    /\ UNCHANGED <<fut, posts, issued, env>>

\* The environment changes: a variable is set.
SetVar(key, value) ==
    /\ value.set
    /\ env' = [env EXCEPT ![key] = value]
    /\ UNCHANGED <<clientvars, fromenv>>

\* The environment changes: a variable is removed.
RemoveVar(key) ==
    /\ env[key].set
    /\ env' = [env EXCEPT ![key] = Unset]
    /\ UNCHANGED <<clientvars, fromenv>>

\* A process that has no Client yet.
InitEnv ==
    /\ url = ""
    /\ auth = ""
    /\ idit = 0
    /\ fut = [c \in Callers |-> Idle]
    /\ posts = <<>>
    /\ issued = [c \in Callers |-> <<>>]
    /\ env \in [EnvVars -> EnvValues]
    /\ fromenv = NotCalled

NextEnv ==
    \/ FromEnv
    \/ \E key \in EnvVars, value \in EnvValues : SetVar(key, value)
    \/ \E key \in EnvVars : RemoveVar(key)

SpecEnv == InitEnv /\ [][NextEnv]_vars

-----------------------------------------------------------------------------
(* The properties.                                                         *)

\* The identifier a POST carries.
RequestId(post) == post.body.doc.o["id"].n

\* The method a POST carries.
RequestMethod(post) == post.body.doc.o["method"].s

\* The calls that have ended with an outcome.
Done == {c \in Callers : fut[c].pc = "done"}

\* The ended calls that received a JSON object with an id (a number or null),
\* and an error, when it has one, of the form {code, message}.
GotEnvelope ==
    {c \in Done :
        /\ "text" \in DOMAIN fut[c]
        /\ fut[c].text.json
        /\ fut[c].text.doc.k = "object"
        /\ "id" \in DOMAIN fut[c].text.doc.o
        /\ fut[c].text.doc.o["id"].k \in {"number", "null"}
        /\ ("error" \in DOMAIN fut[c].text.doc.o
              /\ fut[c].text.doc.o["error"].k # "null")
           => IsErrorObject(fut[c].text.doc.o["error"])}

\* The members of the envelope a call received.
RespId(c) == fut[c].text.doc.o["id"]
HasResult(c) ==
    "result" \in DOMAIN fut[c].text.doc.o /\ fut[c].text.doc.o["result"].k # "null"
HasError(c) ==
    "error" \in DOMAIN fut[c].text.doc.o /\ fut[c].text.doc.o["error"].k # "null"
RespResult(c) == fut[c].text.doc.o["result"]
IdMatches(c) == RespId(c).k = "number" /\ RespId(c).n = fut[c].id
IdDiffers(c) == RespId(c).k = "number" /\ RespId(c).n # fut[c].id

\* C1: the POSTs of one Client carry the identifiers 0, 1, 2, ... in the
\* order of the calls (so they are pairwise distinct and strictly
\* increasing), and the iterator stands at the number of calls made.
C1_IdsAscendFromZero ==
    /\ \A i \in 1..Len(posts) : RequestId(posts[i]) = i - 1
    /\ idit = Len(posts)

\* C1 witness: three calls were made, through both typed methods.
C1_Witness ==
    /\ Len(posts) >= 3
    /\ \E i, j \in 1..Len(posts) : RequestMethod(posts[i]) # RequestMethod(posts[j])

\* C2: a call that received an envelope with an id that differs from its
\* request's and with an error ends in Mismatch, not in RpcError.
C2_MismatchBeforeError ==
    \A c \in GotEnvelope : IdDiffers(c) /\ HasError(c) => Kind(fut[c].out) = "Mismatch"

\* C2 witness: such a call has ended, its outcome Mismatch.
C2_Witness ==
    \E c \in GotEnvelope :
        IdDiffers(c) /\ HasError(c) /\ HasResult(c) /\ Kind(fut[c].out) = "Mismatch"

\* C3: a call that received an envelope with its request's id and with both
\* result and error ends in RpcError or Malformed, never in success.
C3_BothPopulatedIsError ==
    \A c \in GotEnvelope :
        IdMatches(c) /\ HasResult(c) /\ HasError(c)
            => Kind(fut[c].out) \in {"RpcError", "Malformed"}

\* C3 witness: such a call has ended, the result one its method would accept.
C3_Witness ==
    \E c \in GotEnvelope :
        /\ IdMatches(c) /\ HasResult(c) /\ HasError(c)
        /\ fut[c].method = "getinfo"
        /\ RespResult(c) = GoodInfo(12345, TRUE)
        /\ fut[c].out = Err(RpcError(-32601, "Method not found"))

\* C4: a call that received an envelope with its request's id and with
\* neither result nor error ends in Malformed.
C4_NeitherIsMalformed ==
    \A c \in GotEnvelope :
        IdMatches(c) /\ ~HasResult(c) /\ ~HasError(c)
            => Kind(fut[c].out) = "Malformed"

\* C4 witness: such a call, not the first of its Client, has ended.
C4_Witness ==
    \E c \in GotEnvelope :
        /\ IdMatches(c) /\ ~HasResult(c) /\ ~HasError(c)
        /\ fut[c].id > 0
        /\ Kind(fut[c].out) = "Malformed"

\* The fields of each method's response that hold a number, a string or a
\* boolean, and how the typed value holds each.
ScalarFields(method) ==
    IF method = "getinfo"
    THEN {"balance", "blocks", "connections", "difficulty", "errors",
          "keypoololdest", "keypoolsize", "paytxfee", "protocolversion",
          "proxy", "relayfee", "testnet", "timeoffset", "version",
          "walletversion"}
    ELSE {"chain", "blocks", "headers", "bestblockhash", "difficulty",
          "verificationprogress", "chainwork", "pruned", "size_on_disk",
          "commitments"}

Scalar(v) == IF v.k = "number" THEN v.n ELSE IF v.k = "string" THEN v.s ELSE v.b

\* The results of the server that are complete for a method.
CompleteResults(method) ==
    IF method = "getinfo" THEN {GoodInfo(12345, TRUE), GoodInfo(7, FALSE)}
    ELSE {GoodChain(7)}

\* C5: a typed method that received an envelope with its request's id, no
\* error and a result complete for its response type returns a success that
\* carries the values of that result; getinfo answered with blocks 12345 and
\* testnet true returns blocks = 12345 and testnet = TRUE.
C5_SuccessCarriesResult ==
    \A c \in GotEnvelope :
        IdMatches(c) /\ ~HasError(c) /\ HasResult(c)
                     /\ RespResult(c) \in CompleteResults(fut[c].method)
            => /\ fut[c].out.ok
               /\ \A f \in ScalarFields(fut[c].method) :
                     fut[c].out.v[f] = Scalar(RespResult(c).o[f])
               /\ RespResult(c) = GoodInfo(12345, TRUE)
                     => fut[c].out.v.blocks = 12345 /\ fut[c].out.v.testnet = TRUE

\* C5 witness: the first call of the Client, getinfo, answered with id 0 and
\* the complete result, has returned blocks 12345 on testnet.
C5_Witness ==
    \E c \in GotEnvelope :
        /\ fut[c].method = "getinfo" /\ fut[c].id = 0 /\ IdMatches(c)
        /\ ~HasError(c) /\ HasResult(c)
        /\ RespResult(c) = GoodInfo(12345, TRUE)
        /\ fut[c].out.ok
        /\ fut[c].out.v.blocks = 12345
        /\ fut[c].out.v.testnet = TRUE

\* The fields each method's response type declares without Option.
RequiredFields(method) ==
    IF method = "getinfo" THEN ScalarFields("getinfo")
    ELSE ScalarFields("getblockchaininfo")
         \cup {"valuePools", "softforks", "upgrades", "consensus"}

\* A result that does not match the response type of a method: not an
\* object, or without a required field, or with blocks not an unsigned number.
Mismatched(result, method) ==
    \/ result.k # "object"
    \/ \E f \in RequiredFields(method) : f \notin DOMAIN result.o
    \/ result.o["blocks"].k # "number"
    \/ result.o["blocks"].n < 0

\* C6: a call that received an envelope with its request's id, no error and
\* a result that does not match the response type of its method ends in
\* Decode; no success leaves a required field out.
C6_SchemaMismatchIsDecode ==
    \A c \in GotEnvelope :
        IdMatches(c) /\ ~HasError(c) /\ HasResult(c)
            => /\ Mismatched(RespResult(c), fut[c].method)
                    => Kind(fut[c].out) = "Decode"
               /\ fut[c].out.ok
                    => \A f \in RequiredFields(fut[c].method) :
                          f \in DOMAIN RespResult(c).o

\* C6 witness: getinfo answered with {"unexpectedField": 1} has ended in Decode.
C6_Witness ==
    \E c \in GotEnvelope :
        /\ fut[c].method = "getinfo" /\ IdMatches(c) /\ ~HasError(c)
        /\ HasResult(c) /\ RespResult(c) = Unexpected
        /\ fut[c].out = Err(Decode)


\* The variables from_env saw unset, and whether an error names a variable.
Missing(e) == {key \in EnvVars : ~e[key].set}
Names(error, key) == "var" \in DOMAIN error /\ error.var = key

\* C7 as claimed: from_env with a variable unset returns an error that names
\* the missing variable, and with both set returns the Client of Client::new.
C7_ErrorNamesVariable ==
    fromenv.called =>
        /\ Missing(fromenv.env) # {}
              => /\ ~fromenv.res.ok
                 /\ \E key \in Missing(fromenv.env) : Names(fromenv.res.e, key)
        /\ Missing(fromenv.env) = {}
              => /\ fromenv.res.ok
                 /\ fromenv.res.v = New(fromenv.env["ZCASHRPC_HOST"].s,
                                        fromenv.env["ZCASHRPC_AUTH"].s)

\* C7 as amended: from_env returns VarError::NotPresent, which names no
\* variable, when ZCASHRPC_HOST is unset or when ZCASHRPC_HOST holds a string
\* and ZCASHRPC_AUTH is unset, and constructs no Client; when both hold
\* strings it returns the Client that Client::new yields for the two values.
C7_NotPresentOrNew ==
    fromenv.called =>
        LET host == fromenv.env["ZCASHRPC_HOST"]
            cookie == fromenv.env["ZCASHRPC_AUTH"]
        IN  /\ ~host.set => fromenv.res = Err([kind |-> "NotPresent"])
            /\ host.set /\ host.unicode /\ ~cookie.set
                  => fromenv.res = Err([kind |-> "NotPresent"])
            /\ host.set /\ host.unicode /\ cookie.set /\ cookie.unicode
                  => fromenv.res = Ok([url |-> "http://" \o host.s \o "/",
                                       auth |-> "Basic " \o cookie.s,
                                       idit |-> 0])
            /\ ~fromenv.res.ok => \A key \in EnvVars : ~Names(fromenv.res.e, key)

\* C7 witness: from_env has failed with only ZCASHRPC_AUTH unset, after it
\* had constructed a Client from an earlier environment.
C7_Witness ==
    /\ fromenv.called
    /\ Missing(fromenv.env) = {"ZCASHRPC_AUTH"}
    /\ fromenv.env["ZCASHRPC_HOST"].unicode
    /\ ~fromenv.res.ok
    /\ url # ""

\* The number of calls the callers have made.
RECURSIVE CallsOf(_)
CallsOf(S) ==
    IF S = {} THEN 0
    ELSE LET c == CHOOSE x \in S : TRUE IN Len(issued[c]) + CallsOf(S \ {c})

\* How often a step occurs among the steps of a call.
Count(ops, op) == Cardinality({i \in 1..Len(ops) : ops[i] = op})

\* C8: every call has made exactly one POST, so there are as many POSTs as
\* calls; a call whose send or whose reading of the body failed has ended in
\* Transport with nothing parsed or unwrapped, and only such a call has.
C8_OneRoundTrip ==
    /\ Len(posts) = CallsOf(Callers)
    /\ \A c \in Callers :
          fut[c].pc # "idle" =>
              /\ Count(fut[c].ops, "post") = 1
              /\ fut[c].pc = "done" /\ "text" \notin DOMAIN fut[c]
                    => fut[c].out = Err(Transport) /\ fut[c].ops = <<"post">>
              /\ fut[c].pc = "done" /\ Kind(fut[c].out) = "Transport"
                    => fut[c].ops = <<"post">>

\* C8 witness: the second call of a Client has ended in Transport.
C8_Witness ==
    \E c \in Done :
        Kind(fut[c].out) = "Transport" /\ fut[c].id = 1 /\ Len(posts) = 2

\* The callers that have a call in progress.
InFlight == {c \in Callers : fut[c].pc # "idle"}

\* C9: no two calls of the callers that share a Client were given the same
\* identifier, and the calls are serialized: one at most is in progress.
C9_DistinctAcrossCallers ==
    /\ \A c, d \in Callers :
          \A i \in 1..Len(issued[c]), j \in 1..Len(issued[d]) :
              (c # d \/ i # j) => issued[c][i] # issued[d][j]
    /\ Cardinality(InFlight) <= 1

\* C9 witness: two callers have called in turn, one of them twice.
C9_Witness ==
    \E c, d \in Callers :
        /\ c # d
        /\ Len(issued[c]) = 2 /\ Len(issued[d]) = 1
        /\ issued[c][1] < issued[d][1] /\ issued[d][1] < issued[c][2]

\* C10: when a call has ended, in success or in any error, the iterator is
\* one past the identifier of that call, and every identifier given out so
\* far lies below the iterator, so none will be given out again.
C10_AdvancesWhateverOutcome ==
    /\ \A c \in Done :
          Kind(fut[c].out) \in ErrorKinds \cup {"Ok"} => idit = fut[c].id + 1
    /\ \A c \in Callers : \A i \in 1..Len(issued[c]) : issued[c][i] < idit

\* C10 witness: a call has ended in an error after an earlier call of the
\* same caller.
C10_Witness ==
    \E c \in Done :
        /\ Kind(fut[c].out) \in ErrorKinds \ {"Transport"}
        /\ Len(issued[c]) = 2
        /\ idit = issued[c][2] + 1

====
